---- MODULE Spec2Model ----
(***************************************************************************)
(* WeatherDataProcessor (src/weather_data_processor.py) and the loader it  *)
(* uses, read_from_web_CSV (src/data_ingestion.py).                        *)
(*                                                                         *)
(* A message is a sequence of one-character strings.  A regular expression *)
(* of the registry is a sequence of top-level alternatives                 *)
(*      lit NUM      or      lit (NUM)                                     *)
(* where lit is a literal prefix and NUM is one of  \d+ ,  -?\d+ ,  [-\d]+ *)
(* ("uint", "int", "loose"); grp says whether NUM is a capturing group.    *)
(* A float is an exact fraction <<num, den>> in lowest terms.  Whatever may *)
(* be None is a string or a tuple: a key, a float, a frame                 *)
(* <<columns, rows>>, a summary table <<index, columns, cells>>.           *)
(***************************************************************************)
EXTENDS Integers, Sequences, FiniteSets, TLC

\* ------------------------------------------------------------ bounds
MaxMsgLen == 4      \* longest message handed to extract_measurement directly
MaxRows == 2        \* most rows of a dataset the loader returns
MaxRuns == 2        \* most process() invocations on one processor

\* ------------------------------------------------------------ values
\* Python's None; in a DataFrame column also NaN, the missing-value marker.
None == "None"

NoError == "NoError"

Digits == {"0", "1", "2", "3", "4", "5", "6", "7", "8", "9"}

Chars == {"T", "H", "1", "2", "-"}

DigitVal(c) ==
    CASE c = "0" -> 0 [] c = "1" -> 1 [] c = "2" -> 2 [] c = "3" -> 3
      [] c = "4" -> 4 [] c = "5" -> 5 [] c = "6" -> 6 [] c = "7" -> 7
      [] c = "8" -> 8 [] c = "9" -> 9

SeqsUpTo(S, n) == UNION {[1..k -> S] : k \in 0..n}

Messages == SeqsUpTo(Chars, MaxMsgLen)

\* ------------------------------------------------------------ float()
\* float(text) over the alphabet: an optional sign, then one or more digits.
\* Anything else makes float() raise ValueError.
Unsigned(text) ==
    IF Len(text) > 0 /\ text[1] \in {"-", "+"} THEN Tail(text) ELSE text

IsFloatText(text) ==
    /\ Len(Unsigned(text)) > 0
    /\ \A i \in 1..Len(Unsigned(text)) : Unsigned(text)[i] \in Digits

RECURSIVE Gcd(_, _)
Gcd(a, b) == IF b = 0 THEN a ELSE Gcd(b, a % b)

Abs(n) == IF n < 0 THEN 0 - n ELSE n

\* The float n / d, d > 0.
Fraction(n, d) == LET g == Gcd(Abs(n), d) IN <<n \div g, d \div g>>

Num(x) == x[1]

Den(x) == x[2]

RECURSIVE DigitsValue(_)
DigitsValue(ds) ==
    IF Len(ds) = 0 THEN 0
    ELSE 10 * DigitsValue(SubSeq(ds, 1, Len(ds) - 1)) + DigitVal(ds[Len(ds)])

float(text) ==
    IF Len(text) > 0 /\ text[1] = "-"
    THEN Fraction(0 - DigitsValue(Unsigned(text)), 1)
    ELSE Fraction(DigitsValue(Unsigned(text)), 1)

\* ------------------------------------------------------------ re.search
Alt(lit, cap, grp) == [lit |-> lit, cap |-> cap, grp |-> grp]

CapClass(cap) == IF cap = "loose" THEN Digits \cup {"-"} ELSE Digits

\* Last index of the greedy run of characters of cls that starts at i
\* (i - 1 when the run is empty).
RECURSIVE RunEnd(_, _, _)
RunEnd(msg, i, cls) ==
    IF i <= Len(msg) /\ msg[i] \in cls THEN RunEnd(msg, i + 1, cls) ELSE i - 1

NoMatch == [matched |-> FALSE, alt |-> 0, text |-> <<>>]

\* One alternative tried at position p of msg.
AltMatchAt(alt, msg, p) ==
    LET n == Len(alt.lit)
        q == p + n
        litOK == /\ q - 1 <= Len(msg)
                 /\ \A i \in 1..n : msg[p + i - 1] = alt.lit[i]
        signed == /\ alt.cap = "int"
                  /\ q <= Len(msg)
                  /\ msg[q] = "-"
                  /\ RunEnd(msg, q + 1, Digits) >= q + 1
        e == IF signed THEN RunEnd(msg, q + 1, Digits)
             ELSE RunEnd(msg, q, CapClass(alt.cap))
    IN  IF litOK /\ e >= q
        THEN [matched |-> TRUE, alt |-> 0, text |-> SubSeq(msg, q, e)]
        ELSE NoMatch

\* re.search(pattern, message): the leftmost position where some alternative
\* matches, and there the first alternative that does.
re_search(pattern, msg) ==
    LET hits(p) == {a \in 1..Len(pattern) : AltMatchAt(pattern[a], msg, p).matched}
        starts == {p \in 1..Len(msg) : hits(p) # {}}
    IN  IF starts = {} THEN NoMatch
        ELSE LET p0 == CHOOSE p \in starts : \A r \in starts : p <= r
                 a0 == CHOOSE a \in hits(p0) : \A b \in hits(p0) : a <= b
             IN  [matched |-> TRUE, alt |-> a0,
                  text |-> AltMatchAt(pattern[a0], msg, p0).text]

\* match.groups(): one entry per capturing group of the pattern, None for a
\* group of an alternative that did not take part in the match.
groups(pattern, m) ==
    LET capturing == SelectSeq([a \in 1..Len(pattern) |-> a],
                               LAMBDA a : pattern[a].grp)
    IN  [j \in 1..Len(capturing) |->
            IF capturing[j] = m.alt THEN m.text ELSE None]

\* ------------------------------------------------------------ registries
Entry(key, pattern) == [key |-> key, pattern |-> pattern]

TempInt == <<Alt(<<"T">>, "int", TRUE)>>        \* T(-?\d+)
HumUint == <<Alt(<<"H">>, "uint", TRUE)>>       \* H(\d+)
TempOrHum == <<Alt(<<"T">>, "uint", TRUE), Alt(<<"H">>, "uint", TRUE)>>
                                                \* T(\d+)|H(\d+)
TempLoose == <<Alt(<<"T">>, "loose", TRUE)>>    \* T([-\d]+)
TempBare == <<Alt(<<"T">>, "uint", FALSE)>>     \* T\d+

\* config_params['regex_patterns'], in insertion order.
Registries ==
    { <<Entry("temp", TempInt), Entry("hum", HumUint)>>,
      <<Entry("level", TempOrHum)>>,
      <<Entry("temp", TempLoose), Entry("hum", HumUint)>>,
      <<Entry("temp", TempBare), Entry("hum", HumUint)>> }

Keys(pats) == {pats[i].key : i \in 1..Len(pats)}

\* ------------------------------------------------------------ extract_measurement
Returned(key, value) == [raised |-> NoError, key |-> key, value |-> value]

Raised(error) == [raised |-> error, key |-> None, value |-> None]

\* The registered patterns that match somewhere in the message.
Matching(pats, message) ==
    {i \in 1..Len(pats) : re_search(pats[i].pattern, message).matched}

\* Mutant: a capture that float() rejects is returned as a missing value.
FirstGroupAsFloat_lenient(key, gs) ==
    LET present == {j \in 1..Len(gs) : gs[j] # None}
    IN  IF present = {} THEN Raised("StopIteration")
        ELSE LET j0 == CHOOSE j \in present : \A k \in present : j <= k
             IN  IF IsFloatText(gs[j0]) THEN Returned(key, float(gs[j0]))
                 ELSE Returned(key, None)

\* The return statement of the loop body: float(next(x for x in
\* match.groups() if x is not None)).
FirstGroupAsFloat(key, gs) ==
    LET present == {j \in 1..Len(gs) : gs[j] # None}
    IN  IF present = {} THEN Raised("StopIteration")
        ELSE LET j0 == CHOOSE j \in present : \A k \in present : j <= k
             IN  IF IsFloatText(gs[j0]) THEN Returned(key, float(gs[j0]))
                 ELSE Raised("ValueError")

RECURSIVE ExtractFrom(_, _, _)
ExtractFrom(pats, message, i) ==
    IF i > Len(pats) THEN Returned(None, None)
    ELSE LET m == re_search(pats[i].pattern, message)
         IN  IF m.matched
             THEN FirstGroupAsFloat(pats[i].key, groups(pats[i].pattern, m))
             ELSE ExtractFrom(pats, message, i + 1)

\* Mutant: the loop keeps going, so the last matching pattern decides.
extract_measurement_last(pats, message) ==
    IF Matching(pats, message) = {} THEN Returned(None, None)
    ELSE LET i == CHOOSE j \in Matching(pats, message) :
                      \A k \in Matching(pats, message) : k <= j
         IN  FirstGroupAsFloat(pats[i].key,
                 groups(pats[i].pattern, re_search(pats[i].pattern, message)))

\* Mutant: after the loop the last key is returned instead of None.
extract_measurement_keyed(pats, message) ==
    IF Matching(pats, message) = {} THEN Returned(pats[Len(pats)].key, None)
    ELSE ExtractFrom(pats, message, 1)

extract_measurement(pats, message) == ExtractFrom(pats, message, 1)

\* ------------------------------------------------------------ the loader
Stations == {"S1", "S2"}

RowMessages == { <<"T", "1">>, <<"H", "2">>, <<"T", "-">> }

RawRow(station, message) == [Weather_station_ID |-> station, Message |-> message]

\* What the CSV at the configured URL can hold: zero to MaxRows rows.
Datasets ==
    SeqsUpTo({RawRow(s, m) : s \in Stations, m \in RowMessages}, MaxRows)

\* What pd.read_csv can raise.
Faults == {"EmptyDataError", "URLError"}

RawColumns == {"Weather_station_ID", "Message"}

DataFrame(columns, rows) == <<columns, rows>>

Columns(df) == df[1]

Rows(df) == df[2]

\* read_from_web_CSV: the frame read, or the exception of pd.read_csv raised
\* again as it is (raise e in both handlers).
read_from_web_CSV(csv, fault) ==
    IF fault = NoError
    THEN [raised |-> NoError, df |-> DataFrame(RawColumns, csv)]
    ELSE [raised |-> fault, df |-> None]

\* ------------------------------------------------------------ the processor
\* Mutant: a failed load is swallowed and an empty frame takes its place.
weather_station_mapping_swallow(df, csv, fault) ==
    LET r == read_from_web_CSV(csv, fault)
    IN  IF r.raised = NoError
        THEN [raised |-> NoError, weather_df |-> r.df]
        ELSE [raised |-> NoError, weather_df |-> DataFrame(RawColumns, <<>>)]

\* weather_station_mapping: the assignment to self.weather_df is not reached
\* when the loader raises.
weather_station_mapping(df, csv, fault) ==
    LET r == read_from_web_CSV(csv, fault)
    IN  IF r.raised = NoError
        THEN [raised |-> NoError, weather_df |-> r.df]
        ELSE [raised |-> r.raised, weather_df |-> df]

AnnotatedRow(row, key, value) ==
    [Weather_station_ID |-> row.Weather_station_ID, Message |-> row.Message,
     Measurement |-> key, Value |-> value]

\* Series.apply(self.extract_measurement): one result per row, in row order.
apply(pats, rows) ==
    [i \in 1..Len(rows) |-> extract_measurement(pats, rows[i].Message)]

Failing(result) == {i \in 1..Len(result) : result[i].raised # NoError}

FirstFailing(result) ==
    CHOOSE i \in Failing(result) : \A j \in Failing(result) : i <= j

\* The frame once both columns are assigned from zip(*result).
Annotated(df, result) ==
    DataFrame(Columns(df) \cup {"Measurement", "Value"},
              [i \in 1..Len(result) |->
                  AnnotatedRow(Rows(df)[i], result[i].key, result[i].value)])

\* process_messages: Series.apply stops at the first row whose extraction
\* raises; zip(*result) of no rows yields nothing to unpack into the two
\* targets, which raises ValueError; otherwise both columns are assigned.
ProcessFrame(df, result) ==
    IF Failing(result) # {}
    THEN [raised |-> result[FirstFailing(result)].raised, weather_df |-> df,
          ret |-> None]
    ELSE IF Len(result) = 0
    THEN [raised |-> "ValueError", weather_df |-> df, ret |-> None]
    ELSE [raised |-> NoError, weather_df |-> Annotated(df, result),
          ret |-> Annotated(df, result)]

process_messages(pats, df) ==
    IF df = None THEN [raised |-> NoError, weather_df |-> df, ret |-> None]
    ELSE ProcessFrame(df, apply(pats, Rows(df)))

FractionAdd(a, b) == Fraction(Num(a) * Den(b) + Num(b) * Den(a), Den(a) * Den(b))

RECURSIVE SumValues(_, _)
SumValues(rows, idx) ==
    IF idx = {} THEN Fraction(0, 1)
    ELSE LET i == CHOOSE j \in idx : TRUE
         IN  FractionAdd(rows[i].Value, SumValues(rows, idx \ {i}))

\* Mutant: grouping by station alone.
GroupRows_by_station(rows, station, kind) ==
    {i \in 1..Len(rows) : /\ rows[i].Measurement # None
                          /\ rows[i].Weather_station_ID = station}

\* The rows groupby puts in group (station, kind); a row whose key column
\* is missing is in no group (dropna).
GroupRows(rows, station, kind) ==
    {i \in 1..Len(rows) : /\ rows[i].Measurement # None
                          /\ rows[i].Weather_station_ID = station
                          /\ rows[i].Measurement = kind}

\* mean() of one group: missing values are skipped.
GroupMean(rows, idx) ==
    LET valued == {i \in idx : rows[i].Value # None}
        total == SumValues(rows, valued)
    IN  IF valued = {} THEN None
        ELSE Fraction(Num(total), Den(total) * Cardinality(valued))

SummaryTable(index, columns, cells) == <<index, columns, cells>>

Index(table) == table[1]

Kinds(table) == table[2]

\* The cell of a station and a kind; None when the table has no such row or
\* column, as when it holds NaN there.
Cell(table, station, kind) ==
    IF station \in Index(table) /\ kind \in Kinds(table)
    THEN table[3][<<station, kind>>] ELSE None

\* calculate_means: groupby(...)['Value'].mean().unstack(), a table with a row
\* per station and a column per kind that head some group, None where the
\* pair heads no group.  A frame without the Measurement column makes
\* groupby raise KeyError; a frame in which no row has a kind reduces to the
\* table with no rows and no columns.
calculate_means(df) ==
    IF df = None THEN [raised |-> NoError, ret |-> None]
    ELSE IF ~({"Weather_station_ID", "Measurement", "Value"} \subseteq Columns(df))
    THEN [raised |-> "KeyError", ret |-> None]
    ELSE LET rows == Rows(df)
             keyed == {i \in 1..Len(rows) : rows[i].Measurement # None}
             index == {rows[i].Weather_station_ID : i \in keyed}
             columns == {rows[i].Measurement : i \in keyed}
         IN  [raised |-> NoError,
              ret |-> SummaryTable(index, columns,
                         [c \in index \X columns |->
                             IF GroupRows(rows, c[1], c[2]) = {} THEN None
                             ELSE GroupMean(rows, GroupRows(rows, c[1], c[2]))])]

\* process: weather_station_mapping, then process_messages; an exception of
\* either ends it there.
process(pats, df, csv, fault) ==
    LET m == weather_station_mapping(df, csv, fault)
        p == process_messages(pats, m.weather_df)
    IN  IF m.raised # NoError
        THEN [raised |-> m.raised, weather_df |-> m.weather_df,
              steps |-> <<"weather_station_mapping">>]
        ELSE [raised |-> p.raised, weather_df |-> p.weather_df,
              steps |-> <<"weather_station_mapping", "process_messages">>]

\* ------------------------------------------------------------ state
VARIABLES
    patterns,       \* self.patterns
    weather_df,     \* self.weather_df
    csv,            \* the rows of the CSV at self.weather_station_data
    fault,          \* what pd.read_csv raises on that URL now, or NoError
    message,        \* the message a caller hands to extract_measurement
    called,         \* the last public method called, with its argument
    raised,         \* the exception that call raised, or NoError
    ret,            \* the value that call returned (None when it raised)
    steps,          \* the methods that call ran inside the processor
    loader,         \* what read_from_web_CSV did in that call, None if not run
    run,            \* how many times process() has been invoked
    df_run          \* the process() invocation that assigned weather_df, else 0

vars == <<run, df_run, called, raised, steps, loader, patterns, csv, fault,
          message, weather_df, ret>>

\* __init__, with the CSV the URL serves.
Init ==
    /\ patterns \in Registries
    /\ weather_df = None
    /\ csv \in Datasets
    /\ fault \in Faults \cup {NoError}
    /\ message = <<>>
    /\ called = <<"__init__">>
    /\ raised = NoError
    /\ ret = None
    /\ steps = <<>>
    /\ loader = None
    /\ run = 0
    /\ df_run = 0

\* The URL starts or stops serving the CSV.
SourceChanges ==
    /\ fault' \in (Faults \cup {NoError}) \ {fault}
    /\ UNCHANGED <<patterns, weather_df, csv, message, called, raised, ret,
                   steps, loader, run, df_run>>

WeatherStationMapping ==
    LET r == weather_station_mapping(weather_df, csv, fault)
    IN  /\ called' = <<"weather_station_mapping">>
        /\ raised' = r.raised
        /\ ret' = None
        /\ weather_df' = r.weather_df
        /\ steps' = <<>>
        /\ loader' = read_from_web_CSV(csv, fault).raised
        /\ df_run' = IF r.raised = NoError THEN 0 ELSE df_run
        /\ UNCHANGED <<patterns, csv, fault, message, run>>

ProcessMessages ==
    LET r == process_messages(patterns, weather_df)
    IN  /\ called' = <<"process_messages">>
        /\ raised' = r.raised
        /\ ret' = r.ret
        /\ weather_df' = r.weather_df
        /\ steps' = <<>>
        /\ loader' = None
        /\ UNCHANGED <<patterns, csv, fault, message, run, df_run>>

CalculateMeans ==
    LET r == calculate_means(weather_df)
    IN  /\ called' = <<"calculate_means">>
        /\ raised' = r.raised
        /\ ret' = r.ret
        /\ steps' = <<>>
        /\ loader' = None
        /\ UNCHANGED <<patterns, weather_df, csv, fault, message, run, df_run>>

Process ==
    /\ run < MaxRuns
    /\ LET r == process(patterns, weather_df, csv, fault)
       IN  /\ called' = <<"process">>
           /\ raised' = r.raised
           /\ ret' = None
           /\ weather_df' = r.weather_df
           /\ steps' = r.steps
           /\ loader' = read_from_web_CSV(csv, fault).raised
           /\ run' = run + 1
           /\ df_run' = IF loader' = NoError THEN run + 1 ELSE df_run
           /\ UNCHANGED <<patterns, csv, fault, message>>

Next ==
    \/ SourceChanges
    \/ WeatherStationMapping
    \/ ProcessMessages
    \/ CalculateMeans
    \/ Process

Spec == Init /\ [][Next]_vars

\* extract_measurement on its own: a constructed processor and one message.
InitExtract ==
    /\ patterns \in Registries
    /\ weather_df = None
    /\ csv = <<>>
    /\ fault = NoError
    /\ message \in Messages
    /\ called = <<"__init__">>
    /\ raised = NoError
    /\ ret = None
    /\ steps = <<>>
    /\ loader = None
    /\ run = 0
    /\ df_run = 0

ExtractMeasurement ==
    LET r == extract_measurement(patterns, message)
    IN  /\ called' = <<"extract_measurement", message>>
        /\ raised' = r.raised
        /\ ret' = IF r.raised = NoError THEN <<r.key, r.value>> ELSE None
        /\ steps' = <<>>
        /\ loader' = None
        /\ UNCHANGED <<patterns, weather_df, csv, fault, message, run, df_run>>

NextExtract == ExtractMeasurement

SpecExtract == InitExtract /\ [][NextExtract]_vars

\* ------------------------------------------------------------ properties
\* The earliest-registered pattern that matches the message.
Earliest(pats, msg) ==
    CHOOSE i \in Matching(pats, msg) : \A k \in Matching(pats, msg) : i <= k

\* The text of the capturing group that took part in the match of the
\* pattern, None when the alternative that matched has no group.
CaptureOf(pattern, msg) ==
    IF pattern[re_search(pattern, msg).alt].grp
    THEN re_search(pattern, msg).text ELSE None

ExtractCalled == called[1] = "extract_measurement"

\* C1: when some registered pattern matches the message, the result is
\* decided by the earliest-registered matching pattern: a returned kind is
\* its key, and when its capture is numeric the call returns that key with
\* the number float() reads from the capture, whatever later patterns match.
C1_FirstMatchWins ==
    (ExtractCalled /\ Matching(patterns, message) # {}) =>
        /\ raised = NoError => ret[1] = patterns[Earliest(patterns, message)].key
        /\ LET e == patterns[Earliest(patterns, message)]
           IN  (/\ CaptureOf(e.pattern, message) # None
                /\ IsFloatText(CaptureOf(e.pattern, message)))
               => /\ raised = NoError
                  /\ ret[1] = e.key
                  /\ ret[2] = float(CaptureOf(e.pattern, message))

\* Two patterns match, with different captures, and the call returned.
C1_Witness ==
    /\ ExtractCalled
    /\ raised = NoError
    /\ \E i, j \in Matching(patterns, message) :
          /\ i < j
          /\ patterns[i].key # patterns[j].key
          /\ CaptureOf(patterns[i].pattern, message)
                # CaptureOf(patterns[j].pattern, message)

\* C2: a message no registered pattern matches makes extract_measurement
\* return (None, None), and nothing is raised.
C2_NoMatchIsAbsent ==
    (ExtractCalled /\ Matching(patterns, message) = {}) =>
        /\ raised = NoError
        /\ ret[1] = None
        /\ ret[2] = None

\* A message with a digit in it that still matches nothing.
C2_Witness ==
    /\ ExtractCalled
    /\ Matching(patterns, message) = {}
    /\ \E i \in 1..Len(message) : message[i] \in Digits
    /\ raised = NoError
    /\ <<None, None>> = ret

HasAnnotations == weather_df # None /\ "Measurement" \in Columns(weather_df)

\* What extract_measurement makes of row i of the frame.
Extraction(i) == extract_measurement(patterns, Rows(weather_df)[i].Message)

\* C3 as claimed: a batch with a record whose capture is not a number is
\* still processed: no exception, that record has kind and value None, and
\* every other record has its own extraction result.
C3_BadNumberDoesNotAbort ==
    (/\ called \in {<<"process_messages">>, <<"process">>}
     /\ called = <<"process">> => loader = NoError
     /\ weather_df # None
     /\ \E i \in 1..Len(Rows(weather_df)) : Extraction(i).raised = "ValueError")
    => /\ raised = NoError
       /\ "Measurement" \in Columns(weather_df)
       /\ \A i \in 1..Len(Rows(weather_df)) :
             IF Extraction(i).raised = "ValueError"
             THEN /\ Rows(weather_df)[i].Measurement = None
                  /\ Rows(weather_df)[i].Value = None
             ELSE /\ Rows(weather_df)[i].Measurement = Extraction(i).key
                  /\ Rows(weather_df)[i].Value = Extraction(i).value

RECURSIVE Total(_, _)
Total(rows, idx) ==
    IF idx = {} THEN 0
    ELSE LET i == CHOOSE j \in idx : TRUE
         IN  Num(rows[i].Value) + Total(rows, idx \ {i})

\* The records of the frame with this station and this kind.
RecordsOf(station, kind) ==
    {i \in 1..Len(Rows(weather_df)) :
        /\ Rows(weather_df)[i].Weather_station_ID = station
        /\ Rows(weather_df)[i].Measurement = kind}

MeansReturned ==
    called = <<"calculate_means">> /\ raised = NoError /\ ret # None

\* C4: the table calculate_means returns has a cell for a station and a kind
\* exactly when some record has that station and that kind, the cell is the
\* arithmetic mean of the values of exactly those records, and records
\* without a kind are in no cell: None heads no column, and every row and
\* column of the table is headed by a station and a kind of some record.
C4_MeansPerStationAndKind ==
    MeansReturned =>
        /\ None \notin Kinds(ret)
        /\ \A s \in Index(ret) : \E k \in Kinds(ret) : RecordsOf(s, k) # {}
        /\ \A k \in Kinds(ret) : \E s \in Index(ret) : RecordsOf(s, k) # {}
        /\ \A s \in Stations, k \in Keys(patterns) :
              /\ Cell(ret, s, k) # None <=> RecordsOf(s, k) # {}
              /\ RecordsOf(s, k) # {} =>
                    Num(Cell(ret, s, k)) * Cardinality(RecordsOf(s, k))
                       = Total(Rows(weather_df), RecordsOf(s, k))
                            * Den(Cell(ret, s, k))

\* A cell that is the mean of two records with different values.
C4_Witness ==
    /\ MeansReturned
    /\ \E s \in Stations, k \in Keys(patterns) :
          /\ Cell(ret, s, k) # None
          /\ \E i, j \in RecordsOf(s, k) :
                Rows(weather_df)[i].Value # Rows(weather_df)[j].Value

\* C5 as claimed: process_messages on a loaded frame yields one annotated
\* record per row of the CSV, in the CSV's order, each with the extraction
\* result of its own message.
C5_OneRecordPerRow ==
    (called = <<"process_messages">> /\ weather_df # None) =>
        /\ raised = NoError
        /\ "Measurement" \in Columns(weather_df)
        /\ Len(Rows(weather_df)) = Len(csv)
        /\ \A i \in 1..Len(csv) :
              /\ Rows(weather_df)[i].Weather_station_ID = csv[i].Weather_station_ID
              /\ Rows(weather_df)[i].Message = csv[i].Message
              /\ Extraction(i).raised = NoError
              /\ Rows(weather_df)[i].Measurement = Extraction(i).key
              /\ Rows(weather_df)[i].Value = Extraction(i).value

\* C6: in every record process_messages has annotated, the kind is None
\* exactly when the value is None, and a kind that is not None is a key of
\* the registry.
C6_KindIffValue ==
    HasAnnotations =>
        \A i \in 1..Len(Rows(weather_df)) :
            /\ Rows(weather_df)[i].Measurement = None
                  <=> Rows(weather_df)[i].Value = None
            /\ Rows(weather_df)[i].Measurement # None
                  => Rows(weather_df)[i].Measurement \in Keys(patterns)

\* An annotated frame with a record that has a kind and one that has none.
C6_Witness ==
    /\ HasAnnotations
    /\ \E i, j \in 1..Len(Rows(weather_df)) :
          /\ Rows(weather_df)[i].Measurement # None
          /\ Rows(weather_df)[j].Measurement = None

\* C7 as claimed: process() on a CSV that loads with zero rows raises
\* EmptyDatasetError.
C7_EmptyDatasetError ==
    (called = <<"process">> /\ loader = NoError /\ Len(csv) = 0)
        => raised = "EmptyDatasetError"

SameFrame(a, b) == IF a = None \/ b = None THEN a = None /\ b = None ELSE a = b

\* C8: a process() whose load fails raises the loader's exception, the one
\* pd.read_csv raised, runs weather_station_mapping alone, and leaves
\* self.weather_df as it was.
C8_LoadFailurePropagates ==
    [][(called' = <<"process">> /\ run' = run + 1 /\ fault # NoError)
          => /\ loader' = fault
             /\ raised' = fault
             /\ steps' = <<"weather_station_mapping">>
             /\ SameFrame(weather_df', weather_df)]_vars

\* A process() whose load failed on a processor that holds a frame.
C8_Witness ==
    /\ called = <<"process">>
    /\ loader \in Faults
    /\ raised = loader
    /\ weather_df # None

\* A registry entry the extractor cannot use: an alternative of its pattern
\* has no capturing group.
BadPattern(pattern) == \E a \in 1..Len(pattern) : ~pattern[a].grp

\* C9 as claimed: a registry with such a pattern is refused by __init__ with
\* ConfigurationError, so no other method is ever called on it.
C9_BadRegistryRefused ==
    (\E i \in 1..Len(patterns) : BadPattern(patterns[i].pattern))
        => called = <<"__init__">> /\ raised = "ConfigurationError"

\* C10 as claimed: once process() has been invoked again, a table of means
\* that calculate_means returns is never computed from a frame that an
\* earlier process() invocation loaded.
C10_NoStaleSummary ==
    (MeansReturned /\ Index(ret) # {}) => df_run \in {0, run}

====
